---- MODULE Spec2Model ----
(***************************************************************************)
(* State-machine model of the jukebox backend: the Flask route handlers of *)
(* src/app.py over the persistence gateway of src/database.py.  The        *)
(* managed auth service, the users / playlists / queue_history tables, the *)
(* external playback queue and every browser session are state; each route *)
(* handler is one action, except /callback, whose identity check and       *)
(* update are two separate database round trips and so two steps.          *)
(***************************************************************************)
EXTENDS Integers, Sequences, FiniteSets, TLC

\* ------------------------------------------------------------------ bounds
MaxQueue == 1      \* tracks the external playback queue may hold

\* ---------------------------------------------------------------- universe
None == "None"                       \* Python None, and an absent session key

Sessions == {"s1", "s2"}             \* browser sessions (cookies)
Emails == {"a@x.com", "b@x.com"}     \* e-mail addresses typed into the forms
Passwords == {"12345", "123456"}     \* typed passwords: 5 and 6 characters
AuthIds == {"A", "B"}                \* ids the auth service hands out
SpotifyAccounts == {"sp1"}           \* accounts of the external music service
PlaylistIds == {"p1"}                \* playlist ids typed into /api/set_playlist
Booleans == {TRUE, FALSE}

\* The id the auth service issues for an e-mail address (user.id).
AuthIdOf(email) == IF email = "a@x.com" THEN "A" ELSE "B"

\* The primary key the users table gives the row of an auth id.
UserIdOf(auth_id) == IF auth_id = "A" THEN "u1" ELSE "u2"

\* email.split('@')[0]
LocalPart(email) == IF email = "a@x.com" THEN "a" ELSE "b"

\* sp.current_user(): the profile of an external account.  sp1 has neither a
\* display name nor an image, sp2 has both.
Profile(sp) ==
    IF sp = "sp1"
    THEN [id |-> "sp1", display_name |-> None, email |-> "one@sp.com", images |-> << >>]
    ELSE [id |-> "sp2", display_name |-> "DJ Two", email |-> "two@sp.com",
          images |-> << [url |-> "img2"] >>]

\* sp.playlist(id)['name']
PlaylistName(pid) == IF pid = "p1" THEN "Party" ELSE "Chill"

\* A Python value is truthy (None is the only falsy value the model uses).
Truthy(v) == v # None

\* a or b
Or(a, b) == IF Truthy(a) THEN a ELSE b

\* --------------------------------------------------------------- records
NoToken == [account |-> None, expired |-> FALSE]
NoRow == [id |-> None, auth_id |-> None, email |-> None, display_name |-> None,
          spotify_id |-> None, profile_image_url |-> None]
NoPending == [auth_id |-> None, spotify_id |-> None, display_name |-> None,
              email |-> None, profile_image_url |-> None]
EmptySession == [auth_id |-> None, email |-> None, user_id |-> None, user_name |-> None,
                 token_info |-> NoToken, selected_playlist_id |-> None,
                 selected_playlist_name |-> None]

VARIABLES
    auth,        \* auth service: e-mail -> password, None when not registered
    users,       \* users table: auth id -> row, NoRow when there is none
    playlists,   \* playlists table: set of selection records
    history,     \* queue_history table: sequence of inserted rows
    queue,       \* playback queue of the external music service
    session,     \* session -> the Flask session dict
    pending,     \* session -> the /callback update waiting between check and update
    last         \* the request answered last: route, session, response, calls made

vars == << auth, users, playlists, history, queue, session, pending, last >>

\* What one request did: its route and session, the response (status 302 is a
\* redirect to target, 0 is a request still in progress), what
\* get_spotipy_client returned ("uncalled", "none", "client", "raised"), how
\* often it refreshed, and the external-service and database calls made.
\* For an API route target is how the call of the music service ended.
\* link is what update_user_with_spotify was asked and returned in a /callback
\* request; form is the password pair a /register POST carried.
NoLink == [success |-> None, spotify_id |-> None, existing_user_email |-> None]
NoForm == [password |-> None, password_confirm |-> None]

Response(route, s, status, target, client, refreshes, calls) ==
    [route |-> route, sid |-> s, status |-> status, target |-> target,
     client |-> client, refreshes |-> refreshes, calls |-> calls, link |-> NoLink,
     form |-> NoForm]

Idle(s) == pending[s] = NoPending

Init ==
    /\ auth = [e \in Emails |-> None]
    /\ users = [a \in AuthIds |-> NoRow]
    /\ playlists = {}
    /\ history = << >>
    /\ queue = << >>
    /\ session = [s \in Sessions |-> EmptySession]
    /\ pending = [s \in Sessions |-> NoPending]
    /\ last = Response("init", None, 0, None, "uncalled", 0, {})

\* ------------------------------------------------- src/database.py gateway

\* register_user: sign_up raises for a registered address or a service error
\* (authOk = FALSE) and the gateway turns that into None.
register_user(email, authOk) ==
    IF authOk /\ auth[email] = None THEN AuthIdOf(email) ELSE None

\* login_user: sign_in_with_password raises for wrong credentials or a service
\* error and the gateway turns that into None.
login_user(email, password, authOk) ==
    IF authOk /\ auth[email] = password THEN AuthIdOf(email) ELSE None

\* get_user_by_auth_id: the row, or None for no row or a failed query.
get_user_by_auth_id(auth_id, dbOk) ==
    IF dbOk THEN users[auth_id] ELSE NoRow

\* get_or_create_user: the row it returns (NoRow for a failed query).
get_or_create_user(auth_id, email, display_name, dbOk) ==
    IF ~dbOk THEN NoRow
    ELSE IF users[auth_id] # NoRow THEN users[auth_id]
    ELSE [id |-> UserIdOf(auth_id), auth_id |-> auth_id, email |-> email,
          display_name |-> display_name, spotify_id |-> None,
          profile_image_url |-> None]

\* ------------------------------------------------------------ /  (index)
Index(s) ==
    /\ Idle(s)
    /\ last' = Response("index", s,
                        IF Truthy(session[s].auth_id) THEN 302 ELSE 200,
                        IF Truthy(session[s].auth_id) THEN "select_playlist" ELSE "index.html",
                        "uncalled", 0, {})
    /\ UNCHANGED << auth, users, playlists, history, queue, session, pending >>

\* --------------------------------------------------------------- /register
RegisterPage(s) ==
    /\ Idle(s)
    /\ last' = Response("register_get", s, 200, "register.html", "uncalled", 0, {})
    /\ UNCHANGED << auth, users, playlists, history, queue, session, pending >>

\* RegisterRejects with the length test off by one (a 5-character password
\* passes).
RegisterRejectsShort(email, password, password_confirm) ==
    \/ ~Truthy(email)
    \/ ~Truthy(password)
    \/ password # password_confirm
    \/ Len(password) < 5

\* The validation of the POST: TRUE when the form is rejected before any call.
RegisterRejects(email, password, password_confirm) ==
    \/ ~Truthy(email)
    \/ ~Truthy(password)
    \/ password # password_confirm
    \/ Len(password) < 6

Register(s, email, password, password_confirm, authOk, dbOk) ==
    /\ Idle(s)
    /\ LET form == [password |-> password, password_confirm |-> password_confirm]
           Answer(target, calls) ==
               [Response("register", s, 302, target, "uncalled", 0, calls)
                EXCEPT !.form = form]
       IN
       IF RegisterRejects(email, password, password_confirm)
       THEN /\ last' = Answer("register", {})
            /\ UNCHANGED << auth, users, session >>
       ELSE LET auth_id == register_user(email, authOk)
                db_user == get_or_create_user(auth_id, email, LocalPart(email), dbOk)
            IN  IF auth_id = None
                THEN /\ last' = Answer("register", {"register_user"})
                     /\ UNCHANGED << auth, users, session >>
                ELSE /\ auth' = [auth EXCEPT ![email] = password]
                     /\ IF db_user # NoRow
                        THEN /\ users' = [users EXCEPT ![auth_id] = db_user]
                             /\ session' = [session EXCEPT ![s] =
                                    [@ EXCEPT !.auth_id = auth_id, !.email = email,
                                              !.user_id = db_user.id,
                                              !.user_name = db_user.display_name]]
                             /\ last' = Answer("login_spotify",
                                               {"register_user", "get_or_create_user"})
                        ELSE /\ last' = Answer("register",
                                               {"register_user", "get_or_create_user"})
                             /\ UNCHANGED << users, session >>
    /\ UNCHANGED << playlists, history, queue, pending >>

\* ------------------------------------------------------------------ /login
LoginPage(s) ==
    /\ Idle(s)
    /\ last' = Response("login_get", s, 200, "login.html", "uncalled", 0, {})
    /\ UNCHANGED << auth, users, playlists, history, queue, session, pending >>

Login(s, email, password, authOk, dbOk) ==
    /\ Idle(s)
    /\ IF ~Truthy(email) \/ ~Truthy(password)
       THEN /\ last' = Response("login", s, 302, "login", "uncalled", 0, {})
            /\ UNCHANGED session
       ELSE LET auth_id == login_user(email, password, authOk)
                user == get_user_by_auth_id(auth_id, dbOk)
            IN  IF auth_id = None
                THEN /\ last' = Response("login", s, 302, "login", "uncalled", 0,
                                         {"login_user"})
                     /\ UNCHANGED session
                ELSE IF user # NoRow
                THEN /\ session' = [session EXCEPT ![s] =
                            [@ EXCEPT !.auth_id = auth_id, !.email = email,
                                      !.user_id = user.id,
                                      !.user_name = user.display_name]]
                     /\ last' = Response("login", s, 302,
                                         IF Truthy(user.spotify_id)
                                         THEN "select_playlist" ELSE "login_spotify",
                                         "uncalled", 0,
                                         {"login_user", "get_user_by_auth_id"})
                ELSE /\ session' = [session EXCEPT ![s] =
                            [@ EXCEPT !.auth_id = auth_id, !.email = email]]
                     /\ last' = Response("login", s, 302, "login", "uncalled", 0,
                                         {"login_user", "get_user_by_auth_id"})
    /\ UNCHANGED << auth, users, playlists, history, queue, pending >>

\* ----------------------------------------------------------------- /logout
Logout(s) ==
    /\ Idle(s)
    /\ session' = [session EXCEPT ![s] = EmptySession]
    /\ last' = Response("logout", s, 302, "index", "uncalled", 0, {})
    /\ UNCHANGED << auth, users, playlists, history, queue, pending >>

\* ------------------------------------------------------ get_spotipy_client

\* sp_oauth.is_token_expired(token_info)
is_token_expired(token_info) == token_info.expired

\* sp_oauth.refresh_access_token(refresh_token): a pair of the same account
\* that has not expired.
refresh_access_token(token_info) ==
    [account |-> token_info.account, expired |-> FALSE]

\* sp_oauth.get_access_token(code): a fresh pair for the account that granted
\* the code.
get_access_token(code) == [account |-> code, expired |-> FALSE]

\* get_spotipy_client that uses the refreshed pair without storing it in the
\* session.
get_spotipy_client_unsaved(sess, refreshOk) ==
    LET token_info == sess.token_info IN
    IF token_info = NoToken
    THEN [client |-> "none", session |-> sess, refreshes |-> 0]
    ELSE IF is_token_expired(token_info)
    THEN [client |-> IF refreshOk THEN "client" ELSE "raised", session |-> sess,
          refreshes |-> 1]
    ELSE [client |-> "client", session |-> sess, refreshes |-> 0]

\* get_spotipy_client on session dict sess: what it returns ("none" for None,
\* "client" for a Spotify handle, "raised" when refresh_access_token raises),
\* the session dict it leaves, and how many times it called the refresh.
get_spotipy_client(sess, refreshOk) ==
    LET token_info == sess.token_info IN
    IF token_info = NoToken
    THEN [client |-> "none", session |-> sess, refreshes |-> 0]
    ELSE IF is_token_expired(token_info)
    THEN IF refreshOk
         THEN [client |-> "client",
               session |-> [sess EXCEPT !.token_info = refresh_access_token(token_info)],
               refreshes |-> 1]
         ELSE [client |-> "raised", session |-> sess, refreshes |-> 1]
    ELSE [client |-> "client", session |-> sess, refreshes |-> 0]

\* The calls get_spotipy_client made.
ClientCalls(c) == IF c.refreshes > 0 THEN {"refresh_access_token"} ELSE {}

\* The stored token expires as time passes.
TokenExpires(s) ==
    /\ session[s].token_info # NoToken
    /\ ~session[s].token_info.expired
    /\ session' = [session EXCEPT ![s].token_info.expired = TRUE]
    /\ last' = Response("clock", s, 0, None, "uncalled", 0, {})
    /\ UNCHANGED << auth, users, playlists, history, queue, pending >>

\* ---------------------------------------------------------- /login_spotify
LoginSpotify(s) ==
    /\ Idle(s)
    /\ last' = Response("login_spotify", s, 302, "spotify_authorize", "uncalled", 0, {})
    /\ UNCHANGED << auth, users, playlists, history, queue, session, pending >>

\* ------------------------------------------------------------- /callback

\* user_with_spotify_id_exists: the rows the loop may return, i.e. the rows
\* holding spotify_id under another auth id; none when the query raises.
user_with_spotify_id_exists(spotify_id, exclude_auth_id, dbOk) ==
    IF dbOk
    THEN {a \in AuthIds : /\ users[a] # NoRow
                          /\ users[a].spotify_id = spotify_id
                          /\ users[a].auth_id # exclude_auth_id}
    ELSE {}

\* The arguments /callback passes to update_user_with_spotify.
LinkArgs(auth_id, current_user) ==
    [auth_id |-> auth_id,
     spotify_id |-> current_user.id,
     display_name |-> Or(current_user.display_name, current_user.email),
     email |-> current_user.email,
     profile_image_url |-> IF Len(current_user.images) > 0
                           THEN current_user.images[1].url ELSE None]

\* update_data applied to a row: email and profile_image_url only when truthy.
ApplyUpdate(row, args) ==
    [row EXCEPT !.spotify_id = args.spotify_id,
                !.display_name = args.display_name,
                !.email = IF Truthy(args.email) THEN args.email ELSE @,
                !.profile_image_url =
                    IF Truthy(args.profile_image_url) THEN args.profile_image_url ELSE @]

CallbackCalls == {"get_access_token", "current_user", "user_with_spotify_id_exists"}

\* /callback up to and including the identity check of
\* update_user_with_spotify.  code names the account that granted it.
Callback(s, code, outcome, dbOk) ==
    /\ Idle(s)
    /\ IF ~Truthy(code)
       THEN /\ last' = Response("callback", s, 302, "login_spotify", "uncalled", 0, {})
            /\ UNCHANGED << session, pending >>
       ELSE IF ~Truthy(session[s].auth_id)
       THEN /\ last' = Response("callback", s, 302, "login", "uncalled", 0, {})
            /\ UNCHANGED << session, pending >>
       ELSE IF outcome = "token_fail"
       THEN /\ last' = Response("callback", s, 302, "login_spotify", "uncalled", 0,
                                {"get_access_token"})
            /\ UNCHANGED << session, pending >>
       ELSE
            /\ session' = [session EXCEPT ![s].token_info = get_access_token(code)]
            /\ IF outcome = "profile_fail"
               THEN /\ last' = Response("callback", s, 302, "login_spotify", "uncalled", 0,
                                        {"get_access_token", "current_user"})
                    /\ UNCHANGED pending
               ELSE LET args == LinkArgs(session[s].auth_id, Profile(code))
                        existing == user_with_spotify_id_exists(
                                        args.spotify_id, args.auth_id, dbOk)
                    IN  IF existing # {}
                        THEN \E a \in existing :
                             /\ last' = [Response("callback", s, 302, "login_spotify",
                                                  "uncalled", 0, CallbackCalls)
                                         EXCEPT !.link =
                                            [success |-> "false",
                                             spotify_id |-> args.spotify_id,
                                             existing_user_email |-> users[a].email]]
                             /\ UNCHANGED pending
                        ELSE /\ pending' = [pending EXCEPT ![s] = args]
                             /\ last' = [Response("callback", s, 0, None, "uncalled", 0,
                                                  CallbackCalls)
                                         EXCEPT !.link.spotify_id = args.spotify_id]
    /\ UNCHANGED << auth, users, playlists, history, queue >>

\* The rest of /callback: the update of update_user_with_spotify and the
\* handling of its result.
CallbackUpdate(s, dbOk) ==
    /\ ~Idle(s)
    /\ LET args == pending[s]
           row == users[args.auth_id]
           calls == CallbackCalls \cup {"users.update"}
       IN  IF ~dbOk
           THEN /\ last' = [Response("callback_update", s, 302, "login_spotify",
                                     "uncalled", 0, calls)
                            EXCEPT !.link = [success |-> "false",
                                             spotify_id |-> args.spotify_id,
                                             existing_user_email |-> None]]
                /\ UNCHANGED << users, session >>
           ELSE IF row = NoRow
           THEN /\ last' = [Response("callback_update", s, 302, "login_spotify",
                                     "uncalled", 0, calls)
                            EXCEPT !.link = [success |-> "true",
                                             spotify_id |-> args.spotify_id,
                                             existing_user_email |-> None]]
                /\ UNCHANGED << users, session >>
           ELSE LET updated_user == ApplyUpdate(row, args) IN
                /\ users' = [users EXCEPT ![args.auth_id] = updated_user]
                /\ session' = [session EXCEPT ![s] =
                       [@ EXCEPT !.user_id = updated_user.id,
                                 !.user_name = updated_user.display_name]]
                /\ last' = [Response("callback_update", s, 302, "select_playlist",
                                     "uncalled", 0, calls)
                            EXCEPT !.link = [success |-> "true",
                                             spotify_id |-> args.spotify_id,
                                             existing_user_email |-> None]]
    /\ pending' = [pending EXCEPT ![s] = NoPending]
    /\ UNCHANGED << auth, playlists, history, queue >>

\* ------------------------------------------------ /select_playlist, /jukebox
SelectPlaylist(s, refreshOk) ==
    /\ Idle(s)
    /\ IF ~Truthy(session[s].auth_id)
       THEN /\ last' = Response("select_playlist", s, 302, "login", "uncalled", 0, {})
            /\ UNCHANGED session
       ELSE LET c == get_spotipy_client(session[s], refreshOk) IN
            /\ session' = [session EXCEPT ![s] = c.session]
            /\ last' = Response("select_playlist", s,
                           IF c.client = "raised" THEN 500
                           ELSE IF c.client = "none" THEN 302 ELSE 200,
                           IF c.client = "raised" THEN None
                           ELSE IF c.client = "none" THEN "login_spotify"
                           ELSE "select_playlist.html",
                           c.client, c.refreshes, ClientCalls(c))
    /\ UNCHANGED << auth, users, playlists, history, queue, pending >>

Jukebox(s, refreshOk) ==
    /\ Idle(s)
    /\ IF ~Truthy(session[s].auth_id)
       THEN /\ last' = Response("jukebox", s, 302, "login", "uncalled", 0, {})
            /\ UNCHANGED session
       ELSE LET c == get_spotipy_client(session[s], refreshOk) IN
            /\ session' = [session EXCEPT ![s] = c.session]
            /\ last' = Response("jukebox", s,
                           IF c.client = "raised" THEN 500
                           ELSE IF c.client = "none" THEN 302
                           ELSE IF ~Truthy(session[s].selected_playlist_id) THEN 302
                           ELSE 200,
                           IF c.client = "raised" THEN None
                           ELSE IF c.client = "none" THEN "login_spotify"
                           ELSE IF ~Truthy(session[s].selected_playlist_id)
                           THEN "select_playlist"
                           ELSE "jukebox.html",
                           c.client, c.refreshes, ClientCalls(c))
    /\ UNCHANGED << auth, users, playlists, history, queue, pending >>

\* -------------------------------------------------------- /api/user_playlists
UserPlaylists(s, refreshOk, outcome) ==
    /\ Idle(s)
    /\ IF ~Truthy(session[s].auth_id)
       THEN /\ last' = Response("user_playlists", s, 401, None, "uncalled", 0, {})
            /\ UNCHANGED session
       ELSE LET c == get_spotipy_client(session[s], refreshOk)
                calls == ClientCalls(c) \cup {"current_user_playlists"}
            IN  IF c.client # "client"
                THEN /\ session' = [session EXCEPT ![s] = c.session]
                     /\ last' = Response("user_playlists", s,
                                         IF c.client = "raised" THEN 500 ELSE 401, None,
                                         c.client, c.refreshes, ClientCalls(c))
                ELSE IF outcome = "ok"
                THEN /\ session' = [session EXCEPT ![s] = c.session]
                     /\ last' = Response("user_playlists", s, 200, outcome,
                                         c.client, c.refreshes, calls)
                ELSE IF outcome = "token_expired"
                THEN /\ session' = [session EXCEPT ![s] =
                                        [c.session EXCEPT !.token_info = NoToken]]
                     /\ last' = Response("user_playlists", s, 401, outcome,
                                         c.client, c.refreshes, calls)
                ELSE /\ session' = [session EXCEPT ![s] = c.session]
                     /\ last' = Response("user_playlists", s, 500, outcome,
                                         c.client, c.refreshes, calls)
    /\ UNCHANGED << auth, users, playlists, history, queue, pending >>

\* ---------------------------------------------------------- /api/set_playlist

\* sp.playlist(id)['images'][0]['url'] if there are images, else None
PlaylistImage(pid) == IF pid = "p1" THEN "cover1" ELSE None

\* The record save_selected_playlist upserts.
playlist_data(user_id, pid) ==
    [user_id |-> user_id, spotify_playlist_id |-> pid,
     playlist_name |-> PlaylistName(pid), playlist_image_url |-> PlaylistImage(pid)]

\* save_selected_playlist: the table after the upsert; unchanged when the
\* upsert raises (the gateway then returns None).
save_selected_playlist(user_id, pid, dbOk) ==
    IF dbOk THEN playlists \cup {playlist_data(user_id, pid)} ELSE playlists

\* The try block of set_playlist saving the selection before the playlist is
\* validated.
SetPlaylistTrySaveFirst(user_id, playlist_id, outcome, dbOk) ==
    [playlists |-> save_selected_playlist(user_id, playlist_id, dbOk),
     selected |-> dbOk,
     status |-> IF outcome = "ok" /\ dbOk THEN 200 ELSE 500,
     calls |-> {"playlist", "save_selected_playlist"}]

\* The try block of set_playlist: the playlists table it leaves, whether the
\* selection goes into the session, the status, and the calls made.
SetPlaylistTry(user_id, playlist_id, outcome, dbOk) ==
    IF outcome # "ok"
    THEN \* sp.playlist raised: both except branches answer 500
         [playlists |-> playlists, selected |-> FALSE, status |-> 500,
          calls |-> {"playlist"}]
    ELSE [playlists |-> save_selected_playlist(user_id, playlist_id, dbOk),
          selected |-> dbOk, status |-> IF dbOk THEN 200 ELSE 500,
          calls |-> {"playlist", "save_selected_playlist"}]

SetPlaylist(s, playlist_id, refreshOk, outcome, dbOk) ==
    /\ Idle(s)
    /\ IF ~Truthy(session[s].auth_id)
       THEN /\ last' = Response("set_playlist", s, 401, None, "uncalled", 0, {})
            /\ UNCHANGED << session, playlists >>
       ELSE IF ~Truthy(playlist_id)
       THEN /\ last' = Response("set_playlist", s, 400, None, "uncalled", 0, {})
            /\ UNCHANGED << session, playlists >>
       ELSE LET c == get_spotipy_client(session[s], refreshOk)
                user_id == session[s].user_id
            IN  IF c.client # "client"
                THEN /\ session' = [session EXCEPT ![s] = c.session]
                     /\ last' = Response("set_playlist", s,
                                         IF c.client = "raised" THEN 500 ELSE 401, None,
                                         c.client, c.refreshes, ClientCalls(c))
                     /\ UNCHANGED playlists
                ELSE IF ~Truthy(user_id)
                THEN /\ session' = [session EXCEPT ![s] = c.session]
                     /\ last' = Response("set_playlist", s, 401, None,
                                         c.client, c.refreshes, ClientCalls(c))
                     /\ UNCHANGED playlists
                ELSE LET r == SetPlaylistTry(user_id, playlist_id, outcome, dbOk) IN
                     /\ playlists' = r.playlists
                     /\ session' = [session EXCEPT ![s] =
                            IF r.selected
                            THEN [c.session EXCEPT
                                     !.selected_playlist_id = playlist_id,
                                     !.selected_playlist_name = PlaylistName(playlist_id)]
                            ELSE c.session]
                     /\ last' = Response("set_playlist", s, r.status, outcome,
                                         c.client, c.refreshes,
                                         ClientCalls(c) \cup r.calls)
    /\ UNCHANGED << auth, users, history, queue, pending >>

\* ------------------------------------------------------- /api/playlist_tracks
PlaylistTracks(s, refreshOk, outcome) ==
    /\ Idle(s)
    /\ IF ~Truthy(session[s].auth_id)
       THEN /\ last' = Response("playlist_tracks", s, 401, None, "uncalled", 0, {})
            /\ UNCHANGED session
       ELSE LET c == get_spotipy_client(session[s], refreshOk)
                calls == ClientCalls(c) \cup {"playlist_items"}
            IN  IF c.client # "client"
                THEN /\ session' = [session EXCEPT ![s] = c.session]
                     /\ last' = Response("playlist_tracks", s,
                                         IF c.client = "raised" THEN 500 ELSE 401, None,
                                         c.client, c.refreshes, ClientCalls(c))
                ELSE IF ~Truthy(session[s].selected_playlist_id)
                THEN /\ session' = [session EXCEPT ![s] = c.session]
                     /\ last' = Response("playlist_tracks", s, 400, None,
                                         c.client, c.refreshes, ClientCalls(c))
                ELSE IF outcome = "ok"
                THEN /\ session' = [session EXCEPT ![s] = c.session]
                     /\ last' = Response("playlist_tracks", s, 200, outcome,
                                         c.client, c.refreshes, calls)
                ELSE IF outcome = "token_expired"
                THEN /\ session' = [session EXCEPT ![s] =
                                        [c.session EXCEPT !.token_info = NoToken]]
                     /\ last' = Response("playlist_tracks", s, 401, outcome,
                                         c.client, c.refreshes, calls)
                ELSE /\ session' = [session EXCEPT ![s] = c.session]
                     /\ last' = Response("playlist_tracks", s, 500, outcome,
                                         c.client, c.refreshes, calls)
    /\ UNCHANGED << auth, users, playlists, history, queue, pending >>

\* ---------------------------------------------------------- /api/add_to_queue

\* The JSON bodies posted: a complete one, one without track_id, one without
\* track_uri.
Bodies ==
    { [track_uri |-> "uri1", track_id |-> "t1", track_name |-> "Song",
       track_artist |-> None],
      [track_uri |-> "uri1", track_id |-> None, track_name |-> "Song",
       track_artist |-> None],
      [track_uri |-> None, track_id |-> "t1", track_name |-> "Song",
       track_artist |-> None] }

\* The row save_to_queue_history inserts.
history_data(user_id, body) ==
    [user_id |-> user_id, spotify_track_id |-> body.track_id,
     track_name |-> Or(body.track_name, "Unknown"),
     track_artist |-> Or(body.track_artist, "Unknown"), playlist_id |-> None]

\* save_to_queue_history: the table after the insert; unchanged when the
\* insert raises (the gateway then returns None).
save_to_queue_history(user_id, body, dbOk) ==
    IF dbOk THEN Append(history, history_data(user_id, body)) ELSE history

\* The try block of add_to_queue treating a failed history insert as a failed
\* request: the answer is 500 and the track is not left queued.
AddToQueueTryAtomic(user_id, body, outcome, dbOk) ==
    IF outcome = "ok"
    THEN IF Truthy(user_id) /\ Truthy(body.track_id)
         THEN [queue |-> IF dbOk THEN Append(queue, body.track_uri) ELSE queue,
               history |-> save_to_queue_history(user_id, body, dbOk),
               status |-> IF dbOk THEN 200 ELSE 500, pop |-> FALSE,
               calls |-> {"add_to_queue", "save_to_queue_history"}]
         ELSE [queue |-> Append(queue, body.track_uri), history |-> history,
               status |-> 200, pop |-> FALSE, calls |-> {"add_to_queue"}]
    ELSE [queue |-> queue, history |-> history,
          status |-> IF outcome = "no_device" THEN 409
                     ELSE IF outcome = "token_expired" THEN 401 ELSE 500,
          pop |-> (outcome = "token_expired"),
          calls |-> {"add_to_queue"}]

\* The try block of add_to_queue logging the history row before the track is
\* queued.
AddToQueueTryLogFirst(user_id, body, outcome, dbOk) ==
    LET logged == IF Truthy(user_id) /\ Truthy(body.track_id)
                  THEN save_to_queue_history(user_id, body, dbOk) ELSE history
    IN  [queue |-> IF outcome = "ok" THEN Append(queue, body.track_uri) ELSE queue,
         history |-> logged,
         status |-> IF outcome = "ok" THEN 200
                    ELSE IF outcome = "no_device" THEN 409
                    ELSE IF outcome = "token_expired" THEN 401 ELSE 500,
         pop |-> (outcome = "token_expired"),
         calls |-> {"add_to_queue", "save_to_queue_history"}]

\* The try block of add_to_queue: the playback queue and the history table
\* it leaves, the status, whether token_info is popped, and the calls made.
AddToQueueTry(user_id, body, outcome, dbOk) ==
    IF outcome = "ok"
    THEN IF Truthy(user_id) /\ Truthy(body.track_id)
         THEN [queue |-> Append(queue, body.track_uri),
               history |-> save_to_queue_history(user_id, body, dbOk),
               status |-> 200, pop |-> FALSE,
               calls |-> {"add_to_queue", "save_to_queue_history"}]
         ELSE [queue |-> Append(queue, body.track_uri), history |-> history,
               status |-> 200, pop |-> FALSE, calls |-> {"add_to_queue"}]
    ELSE [queue |-> queue, history |-> history,
          status |-> IF outcome = "no_device" THEN 409
                     ELSE IF outcome = "token_expired" THEN 401 ELSE 500,
          pop |-> (outcome = "token_expired"),
          calls |-> {"add_to_queue"}]

AddToQueue(s, body, refreshOk, outcome, dbOk) ==
    /\ Idle(s)
    /\ IF ~Truthy(session[s].auth_id)
       THEN /\ last' = Response("add_to_queue", s, 401, None, "uncalled", 0, {})
            /\ UNCHANGED << session, queue, history >>
       ELSE LET c == get_spotipy_client(session[s], refreshOk)
                user_id == session[s].user_id
            IN  IF c.client # "client"
                THEN /\ session' = [session EXCEPT ![s] = c.session]
                     /\ last' = Response("add_to_queue", s,
                                         IF c.client = "raised" THEN 500 ELSE 401, None,
                                         c.client, c.refreshes, ClientCalls(c))
                     /\ UNCHANGED << queue, history >>
                ELSE IF ~Truthy(body.track_uri)
                THEN /\ session' = [session EXCEPT ![s] = c.session]
                     /\ last' = Response("add_to_queue", s, 400, None,
                                         c.client, c.refreshes, ClientCalls(c))
                     /\ UNCHANGED << queue, history >>
                ELSE LET r == AddToQueueTry(user_id, body, outcome, dbOk) IN
                     /\ Len(r.queue) <= MaxQueue
                     /\ queue' = r.queue
                     /\ history' = r.history
                     /\ session' = [session EXCEPT ![s] =
                            IF r.pop THEN [c.session EXCEPT !.token_info = NoToken]
                            ELSE c.session]
                     /\ last' = Response("add_to_queue", s, r.status, outcome,
                                         c.client, c.refreshes,
                                         ClientCalls(c) \cup r.calls)
    /\ UNCHANGED << auth, users, playlists, pending >>

\* ----------------------------------------------------------- the environment

\* The forms posted to /register: password_confirm equal or different, a
\* password of 5 or of 6 characters, a missing field.
RegisterForms ==
    { [email |-> e, password |-> "123456", password_confirm |-> "123456"] : e \in Emails }
    \cup
    { [email |-> "a@x.com", password |-> "12345", password_confirm |-> "12345"],
      [email |-> "a@x.com", password |-> "123456", password_confirm |-> "12345"],
      [email |-> "a@x.com", password |-> "123456", password_confirm |-> None],
      [email |-> "a@x.com", password |-> None, password_confirm |-> None],
      [email |-> None, password |-> "123456", password_confirm |-> "123456"] }

\* The forms posted to /login.
LoginForms ==
    { [email |-> e, password |-> "123456"] : e \in Emails }
    \cup
    { [email |-> "a@x.com", password |-> "12345"],
      [email |-> "a@x.com", password |-> None],
      [email |-> None, password |-> "123456"] }

\* What can go wrong in one request.  Every failure but a failed database
\* call in the last step aborts its handler, so one fault a request covers
\* every combination: the auth service raises ("auth"), a database call raises
\* ("db"), the token refresh raises ("refresh"), the code exchange or the
\* profile fetch of /callback raises ("token", "profile"), or the music
\* service raises a SpotifyException with the named message.
RegisterFaults == {"none", "auth", "db"}
CallbackFaults == {"none", "token", "profile", "db"}
UpdateFaults == {"none", "db"}
ClientFaults == {"none", "refresh"}
ListFaults == {"none", "refresh", "token_expired", "error"}
SetPlaylistFaults == {"none", "refresh", "token_expired", "error", "db"}
QueueFaults == {"none", "refresh", "token_expired", "no_device", "error", "db"}

\* How the call of the music service ends under a fault.
SpotifyOutcome(fault) ==
    IF fault \in {"token_expired", "no_device", "error"} THEN fault ELSE "ok"

\* How the code exchange and profile fetch of /callback end under a fault.
CallbackOutcome(fault) ==
    IF fault = "token" THEN "token_fail"
    ELSE IF fault = "profile" THEN "profile_fail" ELSE "ok"

\* Every request one browser session can make, and the passing of time.
Request(s) ==
    \/ Index(s)
    \/ RegisterPage(s)
    \/ \E f \in RegisterForms, fault \in RegisterFaults :
          Register(s, f.email, f.password, f.password_confirm,
                   fault # "auth", fault # "db")
    \/ LoginPage(s)
    \/ \E f \in LoginForms, fault \in RegisterFaults :
          Login(s, f.email, f.password, fault # "auth", fault # "db")
    \/ Logout(s)
    \/ TokenExpires(s)
    \/ LoginSpotify(s)
    \/ \E code \in SpotifyAccounts \cup {None}, fault \in CallbackFaults :
          Callback(s, code, CallbackOutcome(fault), fault # "db")
    \/ \E fault \in UpdateFaults : CallbackUpdate(s, fault # "db")
    \/ \E fault \in ClientFaults : SelectPlaylist(s, fault # "refresh")
    \/ \E fault \in ClientFaults : Jukebox(s, fault # "refresh")
    \/ \E fault \in ListFaults :
          UserPlaylists(s, fault # "refresh", SpotifyOutcome(fault))
    \/ \E playlist_id \in PlaylistIds \cup {None}, fault \in SetPlaylistFaults :
          SetPlaylist(s, playlist_id, fault # "refresh", SpotifyOutcome(fault),
                      fault # "db")
    \/ \E fault \in ListFaults :
          PlaylistTracks(s, fault # "refresh", SpotifyOutcome(fault))
    \/ \E body \in Bodies, fault \in QueueFaults :
          AddToQueue(s, body, fault # "refresh", SpotifyOutcome(fault), fault # "db")

\* One browser: every request of session s1, in any order.
Next == Request("s1")

Spec == Init /\ [][Next]_vars

\* Two browsers at once, each registering a local user and linking a music
\* account, with no call failing: the requests of the two interleave at the
\* database round trips.
LinkRequest(s) ==
    \/ \E e \in Emails : Register(s, e, "123456", "123456", TRUE, TRUE)
    \/ \E code \in SpotifyAccounts : Callback(s, code, "ok", TRUE)
    \/ CallbackUpdate(s, TRUE)

NextConcurrent == \E s \in Sessions : LinkRequest(s)

SpecConcurrent == Init /\ [][NextConcurrent]_vars

\* ======================================================================
\* Properties
\* ======================================================================

\* The session a request came from, before and after it.
Before(r) == session[r.sid]
After(r) == session'[r.sid]

\* The database tables and the playback queue are left as they were.
StoresUnchanged ==
    /\ auth' = auth /\ users' = users /\ playlists' = playlists
    /\ history' = history /\ queue' = queue

\* C1: after any interleaving of concurrent /callback link operations, no two
\* user records carry the same non-null spotify_id.
SpotifyIdUnique ==
    \A a, b \in AuthIds :
        (a # b /\ users[a] # NoRow /\ users[b] # NoRow /\ Truthy(users[a].spotify_id))
            => users[a].spotify_id # users[b].spotify_id

\* C2: get_spotipy_client with a token that has not expired returns a client,
\* refreshes nothing and leaves the session as it is; with an expired token it
\* calls the refresh exactly once and, the refresh returning a pair, that pair
\* is session['token_info']; with no token it returns none, refreshes nothing
\* and leaves the session as it is.  The session is compared on the routes
\* that do nothing to it after the call (/select_playlist, /jukebox), and with
\* no token on every route.
ClientRoutes ==
    {"select_playlist", "jukebox", "user_playlists", "set_playlist",
     "playlist_tracks", "add_to_queue"}

GetClientContract ==
    [][ (last'.route \in ClientRoutes /\ last'.client # "uncalled") =>
        LET token_info == Before(last').token_info
            bare == last'.route \in {"select_playlist", "jukebox"}
        IN  /\ token_info = NoToken =>
                /\ last'.client = "none" /\ last'.refreshes = 0
                /\ After(last') = Before(last')
            /\ (token_info # NoToken /\ ~is_token_expired(token_info)) =>
                /\ last'.client = "client" /\ last'.refreshes = 0
                /\ bare => After(last') = Before(last')
            /\ (token_info # NoToken /\ is_token_expired(token_info)) =>
                /\ last'.refreshes = 1
                /\ last'.client \in {"client", "raised"}
                /\ (bare /\ last'.client = "client") =>
                      After(last') = [Before(last') EXCEPT
                                         !.token_info = [account |-> token_info.account,
                                                         expired |-> FALSE]]
                /\ (bare /\ last'.client = "raised") => After(last') = Before(last')
      ]_vars

\* C2 witness: /select_playlist answered after refreshing an expired token.
GetClientRefreshed ==
    /\ last.route = "select_playlist" /\ last.status = 200
    /\ last.client = "client" /\ last.refreshes = 1
    /\ session[last.sid].token_info = [account |-> "sp1", expired |-> FALSE]

\* C3: /api/set_playlist with a playlist id the music service rejects records
\* no selection: the playlists table and the session's selected_playlist_id
\* and selected_playlist_name are as before.
RejectedPlaylistNotSelected ==
    [][ (/\ last'.route = "set_playlist"
         /\ "playlist" \in last'.calls
         /\ last'.target # "ok") =>
        /\ playlists' = playlists
        /\ After(last').selected_playlist_id = Before(last').selected_playlist_id
        /\ After(last').selected_playlist_name = Before(last').selected_playlist_name
      ]_vars

\* C3 witness: sp.playlist raised for a user who could have saved a selection.
PlaylistRejected ==
    /\ last.route = "set_playlist" /\ last.target = "error" /\ last.status = 500
    /\ "playlist" \in last.calls
    /\ Truthy(session[last.sid].user_id)

\* C4: /api/add_to_queue meeting 'No active device found' answers 409 and
\* leaves the queue_history table exactly as it was.
NoDeviceLeavesHistory ==
    [][ (/\ last'.route = "add_to_queue"
         /\ "add_to_queue" \in last'.calls
         /\ last'.target = "no_device") =>
        /\ last'.status = 409
        /\ history' = history
      ]_vars

\* C4 witness: a no-device answer to a request that would have been logged
\* (user known, track id given).
NoDeviceAnswered ==
    /\ last.route = "add_to_queue" /\ last.target = "no_device" /\ last.status = 409
    /\ Truthy(session[last.sid].user_id)

\* C5: update_user_with_spotify called for a spotify_id that a record with
\* another auth_id holds returns success=False with that record's email and
\* leaves the requesting user's record unchanged.  Stated on the step in
\* which the function returns.
LinkConflictRefused ==
    [][ LET auth_id == Before(last').auth_id
            holders == {a \in AuthIds : /\ users[a] # NoRow
                                        /\ users[a].spotify_id = last'.link.spotify_id
                                        /\ users[a].auth_id # auth_id}
        IN  (/\ last'.route \in {"callback", "callback_update"}
             /\ Truthy(last'.link.success)
             /\ holders # {}) =>
            /\ last'.link.success = "false"
            /\ \E a \in holders : last'.link.existing_user_email = users[a].email
            /\ users'[auth_id] = users[auth_id]
      ]_vars

\* C6: on every API route an expired-access-token error of the music service
\* is answered 401 and token_info is removed from the session.
APIRoutes == {"user_playlists", "set_playlist", "playlist_tracks", "add_to_queue"}

ExpiredTokenCleared ==
    [][ (last'.route \in APIRoutes /\ last'.target = "token_expired") =>
        /\ last'.status = 401
        /\ After(last').token_info = NoToken
      ]_vars

\* C7: every route marked as requiring authentication, requested with a
\* session without auth_id, is refused (401 or a redirect to the login page)
\* with no external-service or database call and no change of the session.
AuthRoutes ==
    {"login_spotify", "callback", "select_playlist", "jukebox", "user_playlists",
     "set_playlist", "playlist_tracks", "add_to_queue"}

UnauthenticatedRefused ==
    [][ (last'.route \in AuthRoutes /\ ~Truthy(Before(last').auth_id)) =>
        /\ \/ last'.status = 401
           \/ last'.status = 302 /\ last'.target = "login"
        /\ last'.calls = {}
        /\ session' = session
        /\ StoresUnchanged
      ]_vars

\* C8: a request answered 400 has no side effects: session, database tables
\* and playback queue are unchanged and no token refresh was performed.
BadRequestNoEffect ==
    [][ last'.status = 400 =>
        /\ session' = session
        /\ StoresUnchanged
        /\ last'.refreshes = 0
      ]_vars

\* C9: a POST to /login either establishes a session holding both auth_id and
\* user_id, or reports an error and leaves the session as it was.
LoginAllOrNothing ==
    [][ last'.route = "login" =>
        \/ /\ last'.target \in {"select_playlist", "login_spotify"}
           /\ Truthy(After(last').auth_id) /\ Truthy(After(last').user_id)
        \/ /\ last'.target = "login"
           /\ session' = session
      ]_vars

\* C10: a POST to /register whose password has fewer than 6 characters or
\* differs from password_confirm is rejected before register_user or
\* get_or_create_user is called, and leaves session and database unchanged.
WeakPasswordRejectedFirst ==
    [][ (/\ last'.route = "register"
         /\ Truthy(last'.form.password)
         /\ \/ Len(last'.form.password) < 6
            \/ last'.form.password # last'.form.password_confirm) =>
        /\ last'.target = "register"
        /\ last'.calls = {}
        /\ session' = session
        /\ StoresUnchanged
      ]_vars

\* C10 witness: a 5-character password, confirmed, was turned away.
ShortPasswordRejected ==
    /\ last.route = "register" /\ last.target = "register"
    /\ last.form.password = "12345" /\ last.form.password_confirm = "12345"

\* C11: /logout leaves the session with none of auth_id, email, user_id,
\* user_name, token_info, selected_playlist_id, selected_playlist_name, and a
\* session without them (the state /logout leaves) keeps them absent across
\* every later request until a /register or /login POST succeeds.
LoginSucceeded(r) ==
    \/ r.route = "login" /\ r.target \in {"select_playlist", "login_spotify"}
    \/ r.route = "register" /\ r.target = "login_spotify"

LogoutClearsUntilLogin ==
    [][ /\ last'.route = "logout" => After(last') = EmptySession
        /\ \A s \in Sessions :
              (session[s] = EmptySession /\ ~(last'.sid = s /\ LoginSucceeded(last')))
                  => session'[s] = EmptySession
      ]_vars

\* C12: when the add-to-queue call of /api/add_to_queue succeeds and the
\* history insert fails, the request still answers 200 and the track stays
\* queued; and a queue_history row is only ever inserted by a request whose
\* own add-to-queue call has succeeded.
HistoryBestEffort ==
    [][ /\ (/\ last'.route = "add_to_queue"
            /\ last'.target = "ok"
            /\ "save_to_queue_history" \in last'.calls
            /\ history' = history) =>
               /\ last'.status = 200
               /\ Len(queue') = Len(queue) + 1
               /\ queue'[Len(queue')] = "uri1"
        /\ history' # history =>
               /\ last'.route = "add_to_queue"
               /\ last'.target = "ok" /\ last'.status = 200
               /\ "add_to_queue" \in last'.calls
               /\ Len(queue') = Len(queue) + 1
               /\ Len(history') = Len(history) + 1
               /\ history'[Len(history')].user_id = Before(last').user_id
      ]_vars

\* C12 witness: the track was queued and answered 200 although the insert of
\* its history row failed (the table is still empty).
QueuedWithoutHistory ==
    /\ last.route = "add_to_queue" /\ last.status = 200 /\ last.target = "ok"
    /\ "save_to_queue_history" \in last.calls
    /\ queue = << "uri1" >>
    /\ history = << >>

\* C13: whenever a session (with no request in flight) holds both token_info
\* and user_id, the token was issued for the Spotify account linked to the
\* session's user record; a /callback that ends in failure leaves
\* session['token_info'] as it was, and a /login or /register as a different
\* user does not keep the previous user's token.
TokenOfLinkedAccount(s) ==
    \E a \in AuthIds :
        /\ users[a] # NoRow
        /\ users[a].id = session[s].user_id
        /\ users[a].spotify_id = session[s].token_info.account

TokenMatchesUser ==
    \A s \in Sessions :
        (Idle(s) /\ session[s].token_info # NoToken /\ Truthy(session[s].user_id))
            => TokenOfLinkedAccount(s)

\* C14: whenever a session holds both selected_playlist_id and user_id, the
\* playlists table holds a selection record for exactly that (user_id,
\* playlist id) pair, across any sequence of register, login, callback,
\* set_playlist and logout requests on the session.
SelectionRecorded ==
    \A s \in Sessions :
        (Truthy(session[s].selected_playlist_id) /\ Truthy(session[s].user_id))
            => \E p \in playlists :
                  /\ p.user_id = session[s].user_id
                  /\ p.spotify_playlist_id = session[s].selected_playlist_id

====
